---- MODULE Spec2Model ----
(***************************************************************************)
(* Model of epic/matrixes/matrixes.py: the count-matrix pipeline           *)
(* (write_matrix_files -> create_matrixes -> _create_matrixes per          *)
(* chromosome under joblib.Parallel -> print_matrixes / bedgraphs).        *)
(*                                                                         *)
(* A DataFrame with a (Chromosome, Bin) index is a record                  *)
(*   [columns |-> <<names>>, rows |-> <<[key |-> <<chrom, bin>>,           *)
(*                                      cells |-> [name |-> value]]>>]     *)
(* and a DataFrame before set_index a record                               *)
(*   [columns |-> <<names>>, rows |-> <<[Chromosome, Bin, cells]>>].       *)
(* A chromosome name is the sequence of its characters, so that sorting    *)
(* names is computed from the characters.  A missing value is NaN.         *)
(***************************************************************************)
EXTENDS Integers, Sequences, FiniteSets, TLC

\* ------------------------------------------------------------------ bounds
MaxRegions == 2     \* rows of the differential table
MaxBinIdx == 2      \* bins of a count table are 100 * (1..MaxBinIdx)
MaxCount == 1       \* read counts of a cell are 0..MaxCount

\* the pandas missing value; every count is >= 0
NaN == -1

chr1 == <<"c", "h", "r", "1">>
chr2 == <<"c", "h", "r", "2">>
chr10 == <<"c", "h", "r", "1", "0">>

\* args.treatment and args.control: the input files, which name the columns
Treatment == <<"t.bed.gz">>
Control == <<"c.bed">>

\* ------------------------------------------------------- sequence helpers
RECURSIVE Flatten(_)
Flatten(ss) == IF ss = <<>> THEN <<>> ELSE Head(ss) \o Flatten(Tail(ss))

Range(s) == {s[i] : i \in DOMAIN s}

MapSeq(s, Op(_)) == [i \in DOMAIN s |-> Op(s[i])]

\* a dict with d[k] = v
Assign(d, k, v) == [x \in (DOMAIN d) \cup {k} |-> IF x = k THEN v ELSE d[x]]

\* --------------------------------------------------------------- natsort
Alphabet == <<"0", "1", "2", "3", "4", "5", "6", "7", "8", "9", "c", "h", "r">>
Ord(c) == CHOOSE i \in DOMAIN Alphabet : Alphabet[i] = c
IsDigit(c) == Ord(c) <= 10

RECURSIVE RunLen(_, _)
RunLen(s, d) ==
    IF s = <<>> \/ IsDigit(Head(s)) # d THEN 0 ELSE 1 + RunLen(Tail(s), d)

\* the string split on its runs of digits: text, digits, text, ... (a name
\* that starts with a digit gets an empty text first)
RECURSIVE SplitRuns(_, _)
SplitRuns(s, d) ==
    IF s = <<>> THEN <<>>
    ELSE LET n == RunLen(s, d)
         IN  <<SubSeq(s, 1, n)>> \o SplitRuns(SubSeq(s, n + 1, Len(s)), ~d)

RECURSIVE DigitsToInt(_)
DigitsToInt(s) ==
    IF s = <<>> THEN 0
    ELSE 10 * DigitsToInt(SubSeq(s, 1, Len(s) - 1)) + (Ord(s[Len(s)]) - 1)

RECURSIVE StrLess(_, _)
StrLess(a, b) ==
    IF b = <<>> THEN FALSE
    ELSE IF a = <<>> THEN TRUE
    ELSE IF Head(a) # Head(b) THEN Ord(Head(a)) < Ord(Head(b))
    ELSE StrLess(Tail(a), Tail(b))

\* tuple comparison of two natsort keys; position i is text when i is odd and
\* a number when i is even
RECURSIVE KeyLess(_, _, _)
KeyLess(a, b, i) ==
    IF i > Len(b) THEN FALSE
    ELSE IF i > Len(a) THEN TRUE
    ELSE IF a[i] = b[i] THEN KeyLess(a, b, i + 1)
    ELSE IF i % 2 = 1 THEN StrLess(a[i], b[i])
    ELSE IF DigitsToInt(a[i]) = DigitsToInt(b[i]) THEN KeyLess(a, b, i + 1)
    ELSE DigitsToInt(a[i]) < DigitsToInt(b[i])

NatLess(a, b) == KeyLess(SplitRuns(a, FALSE), SplitRuns(b, FALSE), 1)

RECURSIVE natsorted(_)
natsorted(S) ==
    IF S = {} THEN <<>>
    ELSE LET m == CHOOSE x \in S : \A y \in S \ {x} : NatLess(x, y)
         IN  <<m>> \o natsorted(S \ {m})

\* ------------------------------------------------ chromosome partitioner
RECURSIVE PutDfs(_, _)
PutDfs(dfs, d) ==
    IF dfs = <<>> THEN d
    ELSE IF Head(dfs).rows = <<>> THEN PutDfs(Tail(dfs), d)
    ELSE PutDfs(Tail(dfs), Assign(d, Head(dfs).rows[1].Chromosome, Head(dfs)))

put_dfs_in_chromosome_dict(dfs) == PutDfs(dfs, <<>>)

\* mutant: the placeholder of an absent chromosome with the sample columns
get_chromosome_df_with_columns(chromosome, df_dict) ==
    IF chromosome \in DOMAIN df_dict THEN df_dict[chromosome]
    ELSE [columns |-> IF DOMAIN df_dict = {} THEN <<>>
                      ELSE df_dict[CHOOSE k \in DOMAIN df_dict : TRUE].columns,
          rows |-> <<>>]

get_chromosome_df(chromosome, df_dict) ==
    IF chromosome \in DOMAIN df_dict THEN df_dict[chromosome]
    ELSE [columns |-> <<>>, rows |-> <<>>]

\* ------------------------------------------------- enriched-bin indexer
RECURSIVE PyRange(_, _, _)
PyRange(start, stop, step) ==
    IF start >= stop THEN <<>>
    ELSE <<start>> \o PyRange(start + step, stop, step)

Surviving(df, args) ==
    SelectSeq(df, LAMBDA row : row.FDR < args.false_discovery_rate_cutoff)

\* mutant: the bins up to End, not End + 2
RegionBinsToEnd(row, args) == PyRange(row.Start, row.End, args.window_size)

RegionBins(row, args) == PyRange(row.Start, row.End + 2, args.window_size)

idx_rowdicts(df, args) ==
    Flatten(MapSeq(Surviving(df, args),
        LAMBDA row : MapSeq(RegionBins(row, args),
            LAMBDA bin : [key |-> <<row.Chromosome, bin>>,
                          cells |-> [c \in {"Island"} |-> 1]])))

\* DataFrame.from_dict of an empty list has no columns, and selecting or
\* indexing by "Chromosome" raises KeyError
enriched_bins_raises(df, args) == idx_rowdicts(df, args) = <<>>

enriched_bins(df, args) ==
    [columns |-> <<"Island">>, rows |-> idx_rowdicts(df, args)]

\* ------------------------------------------------------ table operations
set_index(df) ==
    [columns |-> df.columns,
     rows |-> MapSeq(df.rows,
         LAMBDA r : [key |-> <<r.Chromosome, r.Bin>>, cells |-> r.cells])]

NaNCells(cols) == [c \in Range(cols) |-> NaN]

RowsAt(t, k) == SelectSeq(t.rows, LAMBDA r : r.key = k)

\* left.join(right, how="right"): the keys of right, in right's order
join_right(left, right) ==
    [columns |-> left.columns \o right.columns,
     rows |-> Flatten(MapSeq(right.rows,
         LAMBDA r :
             IF RowsAt(left, r.key) = <<>>
             THEN <<[key |-> r.key, cells |-> NaNCells(left.columns) @@ r.cells]>>
             ELSE MapSeq(RowsAt(left, r.key),
                      LAMBDA l : [key |-> r.key, cells |-> l.cells @@ r.cells])))]

\* left.join(right, how="left"): the keys of left, in left's order
join_left(left, right) ==
    [columns |-> left.columns \o right.columns,
     rows |-> Flatten(MapSeq(left.rows,
         LAMBDA l :
             IF RowsAt(right, l.key) = <<>>
             THEN <<[key |-> l.key, cells |-> l.cells @@ NaNCells(right.columns)]>>
             ELSE MapSeq(RowsAt(right, l.key),
                      LAMBDA r : [key |-> l.key, cells |-> l.cells @@ r.cells])))]

IndexLess(k1, k2) ==
    \/ StrLess(k1[1], k2[1])
    \/ k1[1] = k2[1] /\ k1[2] < k2[2]

RECURSIVE SortKeys(_)
SortKeys(S) ==
    IF S = {} THEN <<>>
    ELSE LET m == CHOOSE x \in S : \A y \in S \ {x} : IndexLess(x, y)
         IN  <<m>> \o SortKeys(S \ {m})

Keys(t) == {t.rows[i].key : i \in DOMAIN t.rows}

\* left.join(right, how="outer"): the union of the keys, sorted
join_outer(left, right) ==
    [columns |-> left.columns \o right.columns,
     rows |-> Flatten(MapSeq(SortKeys(Keys(left) \cup Keys(right)),
         LAMBDA k :
             IF RowsAt(left, k) = <<>>
             THEN MapSeq(RowsAt(right, k),
                      LAMBDA r : [key |-> k,
                                  cells |-> NaNCells(left.columns) @@ r.cells])
             ELSE Flatten(MapSeq(RowsAt(left, k),
                      LAMBDA l :
                          IF RowsAt(right, k) = <<>>
                          THEN <<[key |-> k,
                                  cells |-> l.cells @@ NaNCells(right.columns)]>>
                          ELSE MapSeq(RowsAt(right, k),
                                   LAMBDA r : [key |-> k,
                                               cells |-> l.cells @@ r.cells])))))]

fillna(t, v) ==
    [columns |-> t.columns,
     rows |-> MapSeq(t.rows,
         LAMBDA r : [key |-> r.key,
                     cells |-> [c \in DOMAIN r.cells |->
                                   IF r.cells[c] = NaN THEN v ELSE r.cells[c]]])]

\* ------------------------------------------ per-chromosome matrix builder
\* mutant: the join driven by the islands
join_islands_chip_left(islands, chip_df) == join_left(islands, chip_df)

join_islands_chip(islands, chip_df) == join_right(islands, chip_df)

\* mutant: the control table restricted to the bins of the treatment side
join_chip_input_left(chip_df, input_df) == fillna(join_left(chip_df, input_df), 0)

join_chip_input(chip_df, input_df) == fillna(join_outer(chip_df, input_df), 0)

_create_matrixes(chromosome, chip, input, islands) ==
    join_chip_input(
        join_islands_chip(islands, set_index(get_chromosome_df(chromosome, chip))),
        set_index(get_chromosome_df(chromosome, input)))

\* ------------------------------------------------------------ the outputs
\* df.astype(int).to_csv(..., header = (i == 0)) for each matrix in turn: the
\* header is the one of the first matrix, a row holds the cells in the order
\* of its own matrix's columns
CsvRows(t) ==
    MapSeq(t.rows,
        LAMBDA r : [key |-> r.key,
                    values |-> [i \in DOMAIN t.columns |-> r.cells[t.columns[i]]]])

drop(t, name) ==
    [columns |-> SelectSeq(t.columns, LAMBDA c : c # name),
     rows |-> MapSeq(t.rows,
         LAMBDA r : [key |-> r.key,
                     cells |-> [c \in DOMAIN r.cells \ {name} |-> r.cells[c]]])]

DropIsland(t) == drop(t, "Island")

\* mutant: the Island column dropped before the file is written
print_matrixes_without_island(matrixes) ==
    IF matrixes = <<>> THEN [written |-> FALSE, header |-> <<>>, rows |-> <<>>]
    ELSE [written |-> TRUE,
          header |-> <<"Chromosome", "Bin">> \o DropIsland(matrixes[1]).columns,
          rows |-> Flatten(MapSeq(MapSeq(matrixes, DropIsland), CsvRows))]

print_matrixes(matrixes) ==
    IF matrixes = <<>> THEN [written |-> FALSE, header |-> <<>>, rows |-> <<>>]
    ELSE [written |-> TRUE,
          header |-> <<"Chromosome", "Bin">> \o matrixes[1].columns,
          rows |-> Flatten(MapSeq(matrixes, CsvRows))]

RECURSIVE UnionColumns(_, _)
UnionColumns(ts, acc) ==
    IF ts = <<>> THEN acc
    ELSE UnionColumns(Tail(ts),
             acc \o SelectSeq(Head(ts).columns, LAMBDA c : c \notin Range(acc)))

\* pd.concat(matrixes, axis=0): the union of the columns, a cell of a column
\* its matrix does not have is missing
concat(matrixes) ==
    LET cols == UnionColumns(matrixes, <<>>)
    IN  [columns |-> cols,
         rows |-> Flatten(MapSeq(matrixes,
             LAMBDA t : MapSeq(t.rows,
                 LAMBDA r : [key |-> r.key,
                             cells |-> r.cells @@ NaNCells(cols)])))]

Column(matrix, name) ==
    MapSeq(matrix.rows, LAMBDA r : [key |-> r.key, value |-> r.cells[name]])

\* mutant: the missing values kept
keepna(s) == s

dropna(s) == SelectSeq(s, LAMBDA e : e.value # NaN)

\* s[s != 0].dropna(): NaN != 0 is true, so the comparison keeps the missing
\* values and dropna removes them
_individual_bedgraphs(matrix, name) ==
    dropna(SelectSeq(Column(matrix, name), LAMBDA e : e.value # 0))

individual_bedgraphs(matrix, args) ==
    [name \in Range(args.treatment) \cup Range(args.control) |->
        _individual_bedgraphs(matrix, name)]

\* matrix[names].sum(1): the row sums, a missing value counting for nothing
RECURSIVE SumCells(_, _)
SumCells(cells, names) ==
    IF names = <<>> THEN 0
    ELSE (IF cells[Head(names)] = NaN THEN 0 ELSE cells[Head(names)])
         + SumCells(cells, Tail(names))

SumTrack(matrix, names) ==
    SelectSeq(MapSeq(matrix.rows,
                  LAMBDA r : [key |-> r.key, value |-> SumCells(r.cells, names)]),
              LAMBDA e : e.value > 0)

bedgraph(matrix, args) ==
    [treatment |-> SumTrack(matrix, args.treatment),
     input |-> SumTrack(matrix, args.control)]

\* matrix[name] raises KeyError when the matrix has no such column
MissingColumn(matrix, names) == \E n \in Range(names) : n \notin Range(matrix.columns)

\* ------------------------------------------------------------- the inputs
BinSeq == [k \in 1..MaxBinIdx |-> 100 * k]

\* the count table of one chromosome: a row for every bin b with f[b] # NaN
MkDf(c, cols, f) ==
    [columns |-> cols,
     rows |-> MapSeq(SelectSeq(BinSeq, LAMBDA b : f[b] # NaN),
         LAMBDA b : [Chromosome |-> c, Bin |-> b,
                     cells |-> [n \in Range(cols) |-> f[b]]])]

ChipTables(c) ==
    {MkDf(c, Treatment, f) : f \in [Range(BinSeq) -> {NaN} \cup 0..MaxCount]}

InputTables(c) ==
    {MkDf(c, Control, f) : f \in [Range(BinSeq) -> {NaN} \cup 1..MaxCount]}

OneRow(c, cols) == MkDf(c, cols, [b \in Range(BinSeq) |-> IF b = 100 THEN 1 ELSE NaN])

EmptyDf(cols) == [columns |-> cols, rows |-> <<>>]

\* no file of the chromosome, or one
Opt(S) == {<<>>} \cup {<<d>> : d \in S}

Region(c, start, end, fdr) ==
    [Chromosome |-> c, Start |-> start, End |-> end, FDR |-> fdr]

\* FDR in thousandths
Regions ==
    {Region(c, se[1], se[2], f) :
        c \in {chr2, chr10},
        se \in {<<100, 199>>, <<100, 250>>, <<200, 250>>},
        f \in {10, 50}}

RegionTables(n) == UNION {[1..k -> Regions] : k \in 0..n}

Args(w, cores, store, individual, bed) ==
    [window_size |-> w, false_discovery_rate_cutoff |-> 50,
     number_cores |-> cores, store_matrix |-> store,
     individual_bedgraph |-> individual, bedgraph |-> bed,
     treatment |-> Treatment, control |-> Control]

EmptyTable == [columns |-> <<>>, rows |-> <<>>]

VARIABLES
    chip_merged, input_merged, df, args,      \* the arguments of write_matrix_files
    pc, exc,                                  \* position, and the exception raised
    chip, input, all_chromosomes, islands,    \* locals of create_matrixes
    task, dfms,                               \* the Parallel call: tasks and results
    matrixes, store_file,                     \* locals of write_matrix_files, and
    matrix, individual_files, bedgraph_files  \* the files written

vars == <<chip_merged, input_merged, df, args, pc, exc, chip, input,
          all_chromosomes, islands, task, dfms, matrixes, store_file, matrix,
          individual_files, bedgraph_files>>

inputs == <<chip_merged, input_merged, df, args>>

\* every differential table up to MaxRegions rows, over one pair of count tables
InitRegions ==
    /\ df \in RegionTables(MaxRegions)
    /\ \E w \in {50, 100} : args = Args(w, 1, TRUE, TRUE, TRUE)
    /\ chip_merged = <<MkDf(chr2, Treatment, [b \in Range(BinSeq) |-> MaxCount])>>
    /\ input_merged = <<OneRow(chr2, Control)>>

\* every pair of count tables of chr2, over a few differential tables
InitTables ==
    /\ \E t10 \in Opt({OneRow(chr10, Treatment)}),
          t2 \in Opt(ChipTables(chr2)) : chip_merged = t10 \o t2
    /\ \E c2 \in Opt(InputTables(chr2)) :
          input_merged = <<OneRow(chr10, Control)>> \o c2
    /\ df \in {<<r>> : r \in {x \in Regions : x.FDR = 10 /\ x.Chromosome = chr2}}
              \cup {<<Region(chr10, 100, 250, 10)>>,
                    <<Region(chr2, 100, 250, 10), Region(chr2, 200, 250, 10)>>}
    /\ args = Args(100, 2, TRUE, TRUE, TRUE)

\* every set of chromosomes on either side, every choice of outputs
InitChromosomes ==
    /\ \E t10 \in Opt({OneRow(chr10, Treatment), EmptyDf(Treatment)}),
          t1 \in Opt({OneRow(chr1, Treatment), EmptyDf(Treatment)}),
          t2 \in Opt({OneRow(chr2, Treatment), EmptyDf(Treatment)}) :
          chip_merged = t10 \o t1 \o t2
    /\ \E c10 \in Opt({OneRow(chr10, Control)}),
          c1 \in Opt({OneRow(chr1, Control)}),
          c2 \in Opt({OneRow(chr2, Control)}) :
          input_merged = c10 \o c1 \o c2
    /\ df = <<Region(chr1, 100, 250, 10)>>
    /\ \E cores \in {1, 2}, store \in BOOLEAN, individual \in BOOLEAN, bed \in BOOLEAN :
          args = Args(100, cores, store, individual, bed)

Init ==
    /\ InitRegions \/ InitTables \/ InitChromosomes
    /\ pc = "start"
    /\ exc = "none"
    /\ chip = <<>>
    /\ input = <<>>
    /\ all_chromosomes = <<>>
    /\ islands = EmptyTable
    /\ task = <<>>
    /\ dfms = <<>>
    /\ matrixes = <<>>
    /\ store_file = [written |-> FALSE, header |-> <<>>, rows |-> <<>>]
    /\ matrix = EmptyTable
    /\ individual_files = <<>>
    /\ bedgraph_files = [treatment |-> <<>>, input |-> <<>>]

\* --------------------------------------------------------- create_matrixes
Raise(e) == pc' = "error" /\ exc' = e

Partition ==
    /\ chip' = put_dfs_in_chromosome_dict(chip_merged)
    /\ input' = put_dfs_in_chromosome_dict(input_merged)
    /\ all_chromosomes' = natsorted(DOMAIN chip' \cup DOMAIN input')

\* lines 100-107: the partitions, the order of the chromosomes, the islands
CreateMatrixesBegin ==
    /\ pc = "start"
    /\ ~enriched_bins_raises(df, args)
    /\ Partition
    /\ islands' = enriched_bins(df, args)
    /\ task' = [i \in DOMAIN all_chromosomes' |-> "queued"]
    /\ dfms' = [i \in DOMAIN all_chromosomes' |-> [ready |-> FALSE, dfm |-> EmptyTable]]
    /\ pc' = "dispatch"
    /\ UNCHANGED <<inputs, exc, matrixes, store_file, matrix, individual_files,
                   bedgraph_files>>

\* line 104, with no row dict built
EnrichedBinsKeyError ==
    /\ pc = "start"
    /\ enriched_bins_raises(df, args)
    /\ Partition
    /\ Raise("KeyError")
    /\ UNCHANGED <<inputs, islands, task, dfms, matrixes, store_file, matrix,
                   individual_files, bedgraph_files>>

Running == {i \in DOMAIN task : task[i] = "running"}

\* Parallel hands the tasks out in the order of the generator, to at most
\* n_jobs workers at a time
TaskStart(i) ==
    /\ pc = "dispatch"
    /\ task[i] = "queued"
    /\ \A j \in 1..(i - 1) : task[j] # "queued"
    /\ Cardinality(Running) < args.number_cores
    /\ task' = [task EXCEPT ![i] = "running"]
    /\ UNCHANGED <<inputs, pc, exc, chip, input, all_chromosomes, islands, dfms,
                   matrixes, store_file, matrix, individual_files, bedgraph_files>>

\* mutant: the results in the order the tasks finish in
StoreInCompletionOrder(results, i, r) ==
    LET k == CHOOSE j \in DOMAIN results :
                 /\ ~results[j].ready
                 /\ \A h \in 1..(j - 1) : results[h].ready
    IN  [results EXCEPT ![k] = [ready |-> TRUE, dfm |-> r]]

\* Parallel returns the results in the order of the tasks
StoreResult(results, i, r) == [results EXCEPT ![i] = [ready |-> TRUE, dfm |-> r]]

\* a worker finishes its task, in any order
TaskFinish(i) ==
    /\ pc = "dispatch"
    /\ task[i] = "running"
    /\ task' = [task EXCEPT ![i] = "done"]
    /\ dfms' = StoreResult(dfms, i,
                   _create_matrixes(all_chromosomes[i], chip, input, islands))
    /\ UNCHANGED <<inputs, pc, exc, chip, input, all_chromosomes, islands,
                   matrixes, store_file, matrix, individual_files, bedgraph_files>>

\* lines 107-111 and 14: every task done, the list is returned
CreateMatrixesReturn ==
    /\ pc = "dispatch"
    /\ \A i \in DOMAIN task : task[i] = "done"
    /\ matrixes' = [i \in DOMAIN dfms |-> dfms[i].dfm]
    /\ pc' = "returned"
    /\ UNCHANGED <<inputs, exc, chip, input, all_chromosomes, islands, task, dfms,
                   store_file, matrix, individual_files, bedgraph_files>>

\* -------------------------------------------------------- write_matrix_files
\* lines 16-17
PrintMatrixes ==
    /\ pc = "returned"
    /\ store_file' = IF args.store_matrix THEN print_matrixes(matrixes) ELSE store_file
    /\ pc' = "printed"
    /\ UNCHANGED <<inputs, exc, chip, input, all_chromosomes, islands, task, dfms,
                   matrixes, matrix, individual_files, bedgraph_files>>

\* lines 19-20
ConcatMatrixes ==
    /\ pc = "printed"
    /\ matrixes # <<>>
    /\ matrix' = drop(concat(matrixes), "Island")
    /\ pc' = "concatenated"
    /\ UNCHANGED <<inputs, exc, chip, input, all_chromosomes, islands, task, dfms,
                   matrixes, store_file, individual_files, bedgraph_files>>

\* line 19: pd.concat of an empty list raises ValueError
ConcatValueError ==
    /\ pc = "printed"
    /\ matrixes = <<>>
    /\ Raise("ValueError")
    /\ UNCHANGED <<inputs, chip, input, all_chromosomes, islands, task, dfms,
                   matrixes, store_file, matrix, individual_files, bedgraph_files>>

\* lines 21-22
IndividualBedgraphs ==
    /\ pc = "concatenated"
    /\ args.individual_bedgraph => ~MissingColumn(matrix, args.treatment \o args.control)
    /\ individual_files' = IF args.individual_bedgraph
                           THEN individual_bedgraphs(matrix, args)
                           ELSE individual_files
    /\ pc' = "individual"
    /\ UNCHANGED <<inputs, exc, chip, input, all_chromosomes, islands, task, dfms,
                   matrixes, store_file, matrix, bedgraph_files>>

IndividualKeyError ==
    /\ pc = "concatenated"
    /\ args.individual_bedgraph
    /\ MissingColumn(matrix, args.treatment \o args.control)
    /\ Raise("KeyError")
    /\ UNCHANGED <<inputs, chip, input, all_chromosomes, islands, task, dfms,
                   matrixes, store_file, matrix, individual_files, bedgraph_files>>

\* lines 23-24
Bedgraph ==
    /\ pc = "individual"
    /\ args.bedgraph => ~MissingColumn(matrix, args.treatment \o args.control)
    /\ bedgraph_files' = IF args.bedgraph THEN bedgraph(matrix, args) ELSE bedgraph_files
    /\ pc' = "done"
    /\ UNCHANGED <<inputs, exc, chip, input, all_chromosomes, islands, task, dfms,
                   matrixes, store_file, matrix, individual_files>>

BedgraphKeyError ==
    /\ pc = "individual"
    /\ args.bedgraph
    /\ MissingColumn(matrix, args.treatment \o args.control)
    /\ Raise("KeyError")
    /\ UNCHANGED <<inputs, chip, input, all_chromosomes, islands, task, dfms,
                   matrixes, store_file, matrix, individual_files, bedgraph_files>>

Next ==
    \/ CreateMatrixesBegin
    \/ EnrichedBinsKeyError
    \/ \E i \in DOMAIN task : TaskStart(i)
    \/ \E i \in DOMAIN task : TaskFinish(i)
    \/ CreateMatrixesReturn
    \/ PrintMatrixes
    \/ ConcatMatrixes
    \/ ConcatValueError
    \/ IndividualBedgraphs
    \/ IndividualKeyError
    \/ Bedgraph
    \/ BedgraphKeyError

Spec == Init /\ [][Next]_vars

\* ================================================================ claims
\* create_matrixes got past enriched_bins
IslandsBuilt == islands.columns # <<>>

Ready == {i \in DOMAIN dfms : dfms[i].ready}

Returned == pc \in {"returned", "printed", "concatenated", "individual", "done"}
                \/ (pc = "error" /\ IslandsBuilt)

\* the chromosomes of the non-empty tables of a list of files
Present(dfs) == {d.rows[1].Chromosome : d \in {x \in Range(dfs) : x.rows # <<>>}}

Processed == Present(chip_merged) \cup Present(input_merged)

ChromsOf(t) == {t.rows[i].key[1] : i \in DOMAIN t.rows}

KeysOn(t, c) == {k \in Keys(t) : k[1] = c}

\* the table of chromosome c in a list of files, indexed
TableOf(dfs, c) == set_index(get_chromosome_df(c, put_dfs_in_chromosome_dict(dfs)))

\* the join of the islands with the treatment table of task i
ChipJoin(i) == join_islands_chip(islands, TableOf(chip_merged, all_chromosomes[i]))

\* C1, as stated: the key set of the join of the treatment table with the
\* IslandIndex is the set of the island keys of the chromosome.
C1_JoinKeysAreIslandKeys ==
    \A i \in Ready : Keys(ChipJoin(i)) = KeysOn(islands, all_chromosomes[i])

\* C1, amended: the join is driven by the treatment table.  Its key set is the
\* key set of the treatment table of the chromosome: a treatment row in no
\* island is kept, with a missing Island marker (0 in the merged matrix), a
\* treatment row in an island has Island = 1, and an island bin with no
\* treatment row is dropped.
C1_JoinKeysAreTreatmentKeys ==
    \A i \in Ready :
        LET c == all_chromosomes[i]
            j == ChipJoin(i)
        IN  /\ Keys(j) = Keys(TableOf(chip_merged, c))
            /\ \A n \in DOMAIN j.rows :
                   j.rows[n].cells["Island"] =
                       IF j.rows[n].key \in Keys(islands) THEN 1 ELSE NaN
            /\ \A k \in Keys(TableOf(chip_merged, c)) :
                   \E n \in DOMAIN dfms[i].dfm.rows :
                       /\ dfms[i].dfm.rows[n].key = k
                       /\ dfms[i].dfm.rows[n].cells["Island"] =
                              IF k \in Keys(islands) THEN 1 ELSE 0

\* a task done whose treatment table has a bin in no island, while an island
\* bin of the chromosome has no treatment row
C1_Witness ==
    \E i \in Ready :
        LET c == all_chromosomes[i]
        IN  /\ Keys(TableOf(chip_merged, c)) \ Keys(islands) # {}
            /\ KeysOn(islands, c) \ Keys(TableOf(chip_merged, c)) # {}
            /\ Keys(TableOf(chip_merged, c)) \cap Keys(islands) # {}

\* C2, as stated: a chromosome in neither partition that has island bins has
\* a row per island bin in the matrices returned, the sample columns 0.
C2_IslandOnlyChromosomeHasRows ==
    Returned =>
        \A k \in Keys(islands) :
            k[1] \notin Processed =>
                \E i \in DOMAIN matrixes : k \in Keys(matrixes[i])

\* C2, amended: create_matrixes returns one matrix per chromosome of the
\* treatment or control partition and no other; a chromosome in neither
\* partition has no row in any matrix returned, island bins or not.
C2_OnlyPartitionChromosomes ==
    Returned =>
        /\ Len(matrixes) = Cardinality(Processed)
        /\ \A i \in DOMAIN matrixes : ChromsOf(matrixes[i]) \subseteq Processed

\* matrices returned while an island bin lies on a chromosome in neither partition
C2_Witness ==
    /\ Returned
    /\ matrixes # <<>>
    /\ \E k \in Keys(islands) : k[1] \notin Processed

\* the bins the statement of C3 gives one region
ClaimedBins(r, w) ==
    {<<r.Chromosome, r.Start + k * w>> :
        k \in {n \in 0..(r.End + 2) : r.Start + n * w < r.End + 2}}

\* C3: the keys of the IslandIndex are the union, over the regions with
\* FDR < cutoff, of the bins Start + k * window_size < End + 2 (k >= 0); a
\* region with FDR >= cutoff contributes none.
C3_IslandKeys ==
    IslandsBuilt =>
        Keys(islands) =
            UNION {ClaimedBins(r, args.window_size) :
                      r \in {x \in Range(df) : x.FDR < args.false_discovery_rate_cutoff}}

\* Start = 100, End = 250, window_size = 100 gives bins 100 and 200, beside a
\* region at the cutoff that gives none
C3_Witness ==
    /\ df = <<Region(chr2, 100, 250, 10), Region(chr10, 100, 199, 50)>>
    /\ args.window_size = 100
    /\ IslandsBuilt
    /\ Keys(islands) = {<<chr2, 100>>, <<chr2, 200>>}

\* C4, as stated: with no region under the cutoff enriched_bins returns an
\* empty IslandIndex and the pipeline raises nothing.
C4_NoSurvivorNoError ==
    Surviving(df, args) = <<>> =>
        /\ exc = "none"
        /\ pc # "start" => IslandsBuilt /\ islands.rows = <<>>

\* C5: the matrices are in the natural order of the chromosomes of the two
\* partitions (chr1, chr2, chr10), whatever the order the tasks finish in: the
\* i-th result is the matrix of the i-th chromosome of that order.
C5_NaturalOrder ==
    LET order == SelectSeq(<<chr1, chr2, chr10>>, LAMBDA c : c \in Processed)
    IN  IslandsBuilt =>
            /\ Len(dfms) = Len(order)
            /\ \A i \in Ready : ChromsOf(dfms[i].dfm) = {order[i]}
            /\ Returned => matrixes = [i \in DOMAIN order |-> dfms[i].dfm]

\* three chromosomes, the task of the second done while the first still runs
C5_Witness ==
    /\ pc = "dispatch"
    /\ Processed = {chr1, chr2, chr10}
    /\ task[1] = "running"
    /\ task[2] = "done"
    /\ ChromsOf(dfms[2].dfm) = {chr2}

\* C6, as stated: the table written to the combined matrix file has no
\* Island column.
C6_FileHasNoIsland == store_file.written => "Island" \notin Range(store_file.header)

\* C6, amended: the Island column is dropped after the combined matrix file
\* is written, not before.  The file has the Island column (header
\* Chromosome, Bin, Island, then the sample columns of the first matrix, and
\* first in every row the Island marker, 1 for a treatment bin in an island
\* and 0 otherwise); the matrix handed to the bedgraph exporters is the one
\* with no Island column.
C6_FileHasIsland ==
    /\ store_file.written =>
           /\ SubSeq(store_file.header, 1, 3) = <<"Chromosome", "Bin", "Island">>
           /\ Range(store_file.header) \subseteq
                  {"Chromosome", "Bin", "Island"} \cup Range(Treatment \o Control)
           /\ \A n \in DOMAIN store_file.rows :
                  store_file.rows[n].values[1] =
                      IF store_file.rows[n].key \in
                             Keys(islands) \cap
                             Keys(TableOf(chip_merged, store_file.rows[n].key[1]))
                      THEN 1 ELSE 0
    /\ pc \in {"concatenated", "individual", "done"} =>
           "Island" \notin Range(matrix.columns)

\* the file written, with a bin in an island and a bin in none
C6_Witness ==
    /\ store_file.written
    /\ \E n \in DOMAIN store_file.rows : store_file.rows[n].values[1] = 1
    /\ \E n \in DOMAIN store_file.rows : store_file.rows[n].values[1] = 0
    /\ pc = "done"

IndividualWritten == individual_files # <<>>

\* C7, as stated: the per-file bedgraph has no row for a bin whose value is 0
\* and a row with the value NA for exactly the bins whose value is missing.
C7_NAWhereMissing ==
    IndividualWritten =>
        \A name \in DOMAIN individual_files :
            /\ \A e \in Range(individual_files[name]) : e.value # 0
            /\ {e.key : e \in {x \in Range(individual_files[name]) : x.value = NaN}}
                   = {e.key : e \in {x \in Range(Column(matrix, name)) : x.value = NaN}}

\* C7, amended: the per-file bedgraph has no row for a bin whose value is 0
\* and none for a bin whose value is missing: it holds, in the order of the
\* matrix, exactly the rows whose value is neither, and no NA.
C7_NoZeroNoMissing ==
    IndividualWritten =>
        \A name \in DOMAIN individual_files :
            LET s == Column(matrix, name)
                out == individual_files[name]
            IN  /\ \A e \in Range(out) : e.value # 0 /\ e.value # NaN
                /\ out = SelectSeq(s, LAMBDA e : e.value \notin {0, NaN})

\* the files written from a matrix whose treatment column holds a missing
\* value, a 0 and a count
C7_Witness ==
    /\ IndividualWritten
    /\ \E e \in Range(Column(matrix, Treatment[1])) : e.value = NaN
    /\ \E e \in Range(Column(matrix, Treatment[1])) : e.value = 0
    /\ \E e \in Range(Column(matrix, Treatment[1])) : e.value > 0

\* C8: every row of the control table of a processed chromosome is in the
\* merged matrix of the chromosome with its counts, in an island or not, in
\* the treatment table or not, and the merged matrix has no missing cell.
C8_ControlRowsKept ==
    \A i \in Ready :
        LET m == dfms[i].dfm
            ctl == TableOf(input_merged, all_chromosomes[i])
        IN  /\ \A r \in Range(ctl.rows) :
                   \E e \in Range(m.rows) :
                       /\ e.key = r.key
                       /\ \A n \in DOMAIN r.cells : e.cells[n] = r.cells[n]
            /\ \A e \in Range(m.rows) : \A n \in DOMAIN e.cells : e.cells[n] # NaN
            /\ \A e \in Range(m.rows) : DOMAIN e.cells = Range(m.columns)

\* a task done with a control row in no island and not in the treatment
\* table, beside one that is in both
C8_Witness ==
    \E i \in Ready :
        LET c == all_chromosomes[i]
            ctl == Keys(TableOf(input_merged, c))
            trt == Keys(TableOf(chip_merged, c))
        IN  /\ ctl \ (trt \cup Keys(islands)) # {}
            /\ ctl \cap trt \cap Keys(islands) # {}

\* C9, as stated: no (Chromosome, Bin) key occurs more than once in the
\* IslandIndex.
C9_IslandKeysUnique ==
    IslandsBuilt =>
        \A n, m \in DOMAIN islands.rows :
            n # m => islands.rows[n].key # islands.rows[m].key

SideColumns(dfs, c, cols) == IF c \in Present(dfs) THEN Range(cols) ELSE {}

\* C10, as stated: the merged matrix of a processed chromosome has a column
\* for every treatment and every control sample, the cells of a side with no
\* table being 0.
C10_AllSampleColumns ==
    \A i \in Ready :
        /\ Range(dfms[i].dfm.columns) = {"Island"} \cup Range(Treatment \o Control)
        /\ \A e \in Range(dfms[i].dfm.rows) :
               /\ all_chromosomes[i] \notin Present(chip_merged) =>
                      \A n \in Range(Treatment) : e.cells[n] = 0
               /\ all_chromosomes[i] \notin Present(input_merged) =>
                      \A n \in Range(Control) : e.cells[n] = 0

\* C10, amended: the merged matrix of a processed chromosome has the Island
\* column and the sample columns of the sides that have a table for the
\* chromosome; a side with no table gives it no column, and in the
\* concatenated matrix the cells of that side are missing, not 0.
C10_ColumnsOfPresentSides ==
    /\ \A i \in Ready :
           Range(dfms[i].dfm.columns) =
               {"Island"} \cup SideColumns(chip_merged, all_chromosomes[i], Treatment)
                          \cup SideColumns(input_merged, all_chromosomes[i], Control)
    /\ pc \in {"concatenated", "individual", "done"} =>
           \A e \in Range(matrix.rows) :
               \A n \in DOMAIN e.cells :
                   (e.cells[n] = NaN) <=>
                       n \notin SideColumns(chip_merged, e.key[1], Treatment)
                                \cup SideColumns(input_merged, e.key[1], Control)

\* the matrices concatenated, one chromosome with a treatment table only and
\* one with a control table only
C10_Witness ==
    /\ pc \in {"concatenated", "individual", "done"}
    /\ Present(chip_merged) \ Present(input_merged) # {}
    /\ Present(input_merged) \ Present(chip_merged) # {}

====
